---- MODULE Spec2Model ----
(***************************************************************************)
(* Model of the Trello MCP connector (src/main.py): the search / fetch /   *)
(* overview read tools, the write passthrough tools, and the REST upstream *)
(* they talk to.                                                           *)
(*                                                                         *)
(* JSON objects are functions from key strings to values, so that a        *)
(* missing key is a key outside DOMAIN.  Python strings that the code      *)
(* slices or strips (queries, card ids, descriptions) are sequences of     *)
(* one-character strings.  None is the string "<None>".                    *)
(***************************************************************************)
EXTENDS Integers, Sequences, FiniteSets, TLC

VARIABLES
    up,          \* the upstream (Trello) state: what each endpoint answers
    pc,          \* position of the running tool handler, "idle" between calls
    tool,        \* the tool of the current / last invocation
    arg,         \* its argument (query or card_id)
    page,        \* paginate_search: loop variable
    all_cards,   \* paginate_search: accumulator
    card,        \* fetch: response of cards/{id}
    list_info,   \* fetch: response of lists/{idList}
    board_info,  \* fetch: response of boards/{idBoard}
    org_info,    \* fetch: response of organizations/{id}, or {}
    log,         \* HTTP requests issued by the current / last invocation
    ret,         \* value returned by the last invocation
    nwrites,     \* number of write tools invoked so far
    last         \* the last completed read: tool, argument, upstream, result,
                 \* and the result of the read before it when that was the
                 \* same read of the same upstream

vars == <<up, pc, tool, arg, page, all_cards, card, list_info, board_info,
          org_info, log, ret, nwrites, last>>

-----------------------------------------------------------------------------
(* Program constants *)

PageSize == 50
MaxPages == 5
TruncLen == 200

(* Bound of the model: how many write tools are invoked in one behaviour *)
MaxWrites == 2

None == "<None>"
EmptyDict == [k \in {} |-> None]
Ellipsis == <<".", ".", ".">>
NoDescription ==
    <<"N", "o", " ", "d", "e", "s", "c", "r", "i", "p", "t", "i", "o", "n">>

Min(a, b) == IF a < b THEN a ELSE b

(* dict.get(key, default) *)
Get(d, k, default) == IF k \in DOMAIN d THEN d[k] ELSE default

(* d1.update(d2) on a copy *)
Updated(d1, d2) ==
    [k \in DOMAIN d1 \cup DOMAIN d2 |-> IF k \in DOMAIN d2 THEN d2[k] ELSE d1[k]]

(* A JSON array that is the whole body of a response is tagged, so that   *)
(* isinstance(x, dict) can be asked of a response.                       *)
JList(items) == [type |-> "list", items |-> items]
IsDict(v) == ~("type" \in DOMAIN v /\ v["type"] = "list")

(* "error" in data *)
IsErrorNever(d) == FALSE
IsError(d) == "error" \in DOMAIN d

-----------------------------------------------------------------------------
(* Strings given to the tools *)

Whitespace == {" ", "\t"}

RECURSIVE LStrip(_)
LStrip(s) ==
    IF s # <<>> /\ Head(s) \in Whitespace THEN LStrip(Tail(s)) ELSE s

RECURSIVE RStrip(_)
RStrip(s) ==
    IF s # <<>> /\ s[Len(s)] \in Whitespace
    THEN RStrip(SubSeq(s, 1, Len(s) - 1))
    ELSE s

(* str.strip() *)
Strip(s) == RStrip(LStrip(s))

(* not s.strip() *)
IsBlankOnlyEmpty(s) == s = <<>>
IsBlank(s) == Strip(s) = <<>>

(* The strings a caller passes as query or card_id *)
Inputs ==
    { <<>>, <<" ">>, <<"\t", " ">>, <<"a">>, <<" ", "a", "b", " ">> }

-----------------------------------------------------------------------------
(* The upstream: cards of the search index *)

Alphabet == <<"a", "b", "c", "d", "e", "f", "g">>

(* A description of n characters, the i-th depending on i *)
DescOfLen(n) == [i \in 1..n |-> Alphabet[(i % Len(Alphabet)) + 1]]

CardBase(p, i) ==
    [id |-> p * 100 + i, name |-> "Card", url |-> "https://trello.com/c/x",
     closed |-> (i % 2 = 0)]

(* The i-th card of page p of the search results.  The first seven cards   *)
(* of a page cover the shapes of a card: no desc key, empty desc, desc of  *)
(* 1, 199, 200, 201 and 250 characters, and a card with only id and desc.  *)
SearchCard(p, i) ==
    CASE i = 1 -> CardBase(p, i)
      [] i = 2 -> Updated(CardBase(p, i), [desc |-> <<>>])
      [] i = 3 -> Updated(CardBase(p, i), [desc |-> DescOfLen(1)])
      [] i = 4 -> Updated(CardBase(p, i), [desc |-> DescOfLen(TruncLen - 1)])
      [] i = 5 -> Updated(CardBase(p, i), [desc |-> DescOfLen(TruncLen)])
      [] i = 6 -> Updated(CardBase(p, i), [desc |-> DescOfLen(TruncLen + 1)])
      [] i = 7 -> [id |-> p * 100 + i, desc |-> DescOfLen(TruncLen + 50)]
      [] OTHER -> Updated(CardBase(p, i), [desc |-> DescOfLen(2)])

-----------------------------------------------------------------------------
(* The upstream: how it answers a request *)

Req(method, path, a) == [method |-> method, path |-> path, arg |-> a]

WriteReq(method, path, a, data) ==
    [method |-> method, path |-> path, arg |-> a, data |-> data]

HttpError(code) == [error |-> code]

(* What a page of the search index holds: an HTTP failure, or n cards.     *)
(* A page of PageSize + 1 cards is an upstream that ignores cards_limit.   *)
PageKinds ==
    {[ok |-> FALSE, n |-> 0]} \cup
    {[ok |-> TRUE, n |-> k] : k \in {0, 7, PageSize, PageSize + 1}}

SearchResponse(w, p) ==
    IF p \notin DOMAIN w.pages \/ ~w.pages[p].ok
    THEN HttpError("HTTP 500")
    ELSE [cards |-> [i \in 1..w.pages[p].n |-> SearchCard(p, i)]]

(* A resource looked up by id: unknown ids (None among them) are 404 *)
ById(table, id) ==
    IF id \in DOMAIN table THEN table[id] ELSE HttpError("HTTP 404")

(* requests.get(...).json(), or the {"error"} envelope *)
trello_get(w, req) ==
    CASE req.path = "search" -> SearchResponse(w, req.arg.cards_page)
      [] req.path = "cards" -> w.card
      [] req.path = "lists" -> ById(w.lists, req.arg)
      [] req.path = "boards" -> ById(w.boards, req.arg)
      [] req.path = "organizations" -> ById(w.orgs, req.arg)
      [] req.path = "actions" -> w.actions
      [] req.path = "members/me/organizations" -> w.myorgs
      [] req.path = "members/me/boards" -> w.myboards
      [] req.path = "boards/lists" -> ById(w.boardlists, req.arg)
      [] OTHER -> HttpError("HTTP 404")

(* The upstream state after it served a request: a GET leaves it as it is, *)
(* a POST or PUT that succeeds changes the card, the feed or the index     *)
(* the form fields as the upstream keeps them: closed is a boolean *)
Stored(data) ==
    [k \in DOMAIN data |-> IF k = "closed" THEN data[k] = "true" ELSE data[k]]

RECURSIVE FirstOpenPage(_, _)
FirstOpenPage(pages, p) ==
    IF p \notin DOMAIN pages THEN p
    ELSE IF pages[p].ok /\ pages[p].n < PageSize THEN p
    ELSE FirstOpenPage(pages, p + 1)

Applied(w, req) ==
    CASE req.method = "POST" /\ req.path = "cards" ->
            LET p == FirstOpenPage(w.pages, 0)
            IN IF p \in DOMAIN w.pages
               THEN [w EXCEPT !.pages[p].n = @ + 1]
               ELSE w
      [] req.method = "PUT" /\ req.path = "cards" ->
            IF IsError(w.card) THEN w
            ELSE [w EXCEPT !.card = Updated(@, Stored(req.data))]
      [] req.method = "PUT" /\ req.path = "cards/closed" ->
            IF IsError(w.card) THEN w
            ELSE [w EXCEPT !.card = Updated(@, [closed |-> TRUE])]
      [] req.method = "POST" /\ req.path = "actions/comments" ->
            IF IsDict(w.actions) THEN w
            ELSE [w EXCEPT !.actions =
                     JList(<<[id |-> "new", data |-> [text |-> req.data["text"]]]>>
                           \o @["items"])]
      [] OTHER -> w

RECURSIVE AppliedAll(_, _)
AppliedAll(w, reqs) ==
    IF reqs = <<>> THEN w ELSE AppliedAll(Applied(w, Head(reqs)), Tail(reqs))

-----------------------------------------------------------------------------
(* paginate_search *)

PageCards(data) == Get(data, "cards", <<>>)

(* all_cards after the page's response was handled *)
ExtendedDropOnError(all, data) ==
    IF IsError(data) THEN <<>> ELSE all \o PageCards(data)
Extended(all, data) ==
    IF IsError(data) THEN all ELSE all \o PageCards(data)

(* the three breaks of the loop body *)
BreaksOnlyOnError(data, limit) == IsError(data)
Breaks(data, limit) ==
    \/ IsError(data)
    \/ PageCards(data) = <<>>
    \/ Len(PageCards(data)) < limit

(* for page in range(max_pages): is there an iteration after page p *)
HasNextPageOffByOne(p, max_pages) == p + 1 <= max_pages
HasNextPage(p, max_pages) == p + 1 < max_pages

SearchRequest(q, p, limit) ==
    Req("GET", "search", [query |-> q, cards_page |-> p, cards_limit |-> limit])

-----------------------------------------------------------------------------
(* search *)

(* the "text" of a summary *)
SummaryText(c) ==
    IF "desc" \in DOMAIN c /\ c["desc"] # <<>>
    THEN SubSeq(c["desc"], 1, Min(TruncLen, Len(c["desc"]))) \o Ellipsis
    ELSE <<>>

Summary(c) ==
    [id |-> c["id"],
     title |-> Get(c, "name", "No Title"),
     text |-> SummaryText(c),
     url |-> Get(c, "url", ""),
     closed |-> Get(c, "closed", FALSE)]

SearchResults(cards) == [results |-> [i \in DOMAIN cards |-> Summary(cards[i])]]

FetchLocals == <<card, list_info, board_info, org_info>>
SearchLocals == <<page, all_cards>>

(* ret while the handler has not returned *)
NotReturned == EmptyDict

(* a handler's locals do not outlive its return *)
SearchLocalsGone == page' = 0 /\ all_cards' = <<>>
FetchLocalsGone ==
    /\ card' = EmptyDict
    /\ list_info' = EmptyDict
    /\ board_info' = EmptyDict
    /\ org_info' = EmptyDict

(* search(query): the validation, then the entry of paginate_search *)
SearchStart(q) ==
    /\ pc = "idle"
    /\ tool' = "search"
    /\ arg' = q
    /\ log' = <<>>
    /\ IF IsBlank(q)
       THEN /\ ret' = [results |-> <<>>]
            /\ pc' = "idle"
            /\ UNCHANGED SearchLocals
       ELSE /\ pc' = "paginate"
            /\ page' = 0
            /\ all_cards' = <<>>
            /\ ret' = NotReturned
    /\ UNCHANGED <<up, nwrites>>
    /\ UNCHANGED FetchLocals

(* one iteration of the loop of paginate_search *)
SearchPage ==
    /\ pc = "paginate"
    /\ LET req == SearchRequest(arg, page, PageSize)
           data == trello_get(up, req)
       IN /\ log' = Append(log, req)
          /\ up' = Applied(up, req)
          /\ all_cards' = Extended(all_cards, data)
          /\ IF Breaks(data, PageSize) \/ ~HasNextPage(page, MaxPages)
             THEN pc' = "shape" /\ page' = page
             ELSE pc' = "paginate" /\ page' = page + 1
    /\ UNCHANGED <<tool, arg, ret, nwrites>>
    /\ UNCHANGED FetchLocals

(* search: the summaries of the cards paginate_search returned *)
SearchReturn ==
    /\ pc = "shape"
    /\ ret' = SearchResults(all_cards)
    /\ pc' = "idle"
    /\ SearchLocalsGone
    /\ UNCHANGED <<up, tool, arg, log, nwrites>>
    /\ UNCHANGED FetchLocals

-----------------------------------------------------------------------------
(* The upstream: the card, list, board, workspace and comment feed *)

Without(d, keys) == [k \in DOMAIN d \ keys |-> d[k]]

FullCard ==
    [id |-> "c1", name |-> "Fix login", desc |-> <<"b", "u", "g">>,
     url |-> "https://trello.com/c/c1", dateLastActivity |-> "2024-01-01",
     idList |-> "L1", idBoard |-> "B1", due |-> None, closed |-> FALSE,
     members |-> <<>>, checklists |-> <<>>, attachments |-> <<>>]

CardResponses ==
    {HttpError("HTTP 404")} \cup
    {Without(FullCard, a \cup b \cup c) :
        a \in {{}, {"idList"}}, b \in {{}, {"idBoard"}},
        c \in {{}, {"name", "desc", "url"}}}

ListResponses ==
    {HttpError("HTTP 500"),
     [id |-> "L1", name |-> "To Do", idBoard |-> "B1"],
     [id |-> "L1"]}

FullBoard == [id |-> "B1", name |-> "Roadmap", url |-> "https://trello.com/b/B1"]

BoardResponses ==
    {HttpError("HTTP 500"),
     FullBoard,
     Updated(FullBoard, [idOrganization |-> None]),
     Updated(FullBoard, [idOrganization |-> ""]),
     Updated(FullBoard, [idOrganization |-> "O1"])}

OrgResponses ==
    {HttpError("timeout"),
     [id |-> "O1", displayName |-> "Acme", name |-> "acme"],
     [id |-> "O1", name |-> "acme"]}

Comment1 ==
    [id |-> "a1", date |-> "2024-01-02",
     memberCreator |-> [fullName |-> "Ada"], data |-> [text |-> "done"]]
Comment2 == [id |-> "a2", date |-> "2024-01-03"]

ActionsResponses ==
    {HttpError("timeout"), JList(<<>>), JList(<<Comment1, Comment2>>)}

-----------------------------------------------------------------------------
(* fetch *)

(* if board_info.get("idOrganization") *)
NeedsOrgKeyPresent(board) == "idOrganization" \in DOMAIN board
NeedsOrg(board) == Get(board, "idOrganization", None) \notin {None, ""}

(* comments after "if isinstance(comments, dict) and 'error' in comments" *)
CommentsOrEmpty(resp) ==
    IF IsDict(resp) /\ IsError(resp) THEN <<>> ELSE resp["items"]

ShapeComment(c) ==
    [id |-> Get(c, "id", None),
     date |-> Get(c, "date", None),
     memberCreator |-> Get(Get(c, "memberCreator", EmptyDict), "fullName", None),
     text |-> Get(Get(c, "data", EmptyDict), "text", "")]

(* org_info.get("displayName", "") if org_info else None *)
WorkspaceNoGuard(org) == Get(org, "displayName", "")
Workspace(org) == IF org # EmptyDict THEN Get(org, "displayName", "") ELSE None

Metadata(c, l, b, o) ==
    [source |-> "trello",
     lastActivity |-> Get(c, "dateLastActivity", None),
     list |-> Get(l, "name", ""),
     board |-> Get(b, "name", ""),
     boardUrl |-> Get(b, "url", ""),
     workspace |-> Workspace(o)]

Detail(c, l, b, o, comments) ==
    [id |-> Get(c, "id", None),
     title |-> Get(c, "name", "No Title"),
     text |-> Get(c, "desc", NoDescription),
     url |-> Get(c, "url", ""),
     due |-> Get(c, "due", None),
     closed |-> Get(c, "closed", FALSE),
     members |-> Get(c, "members", <<>>),
     checklists |-> Get(c, "checklists", <<>>),
     attachments |-> Get(c, "attachments", <<>>),
     comments |-> [i \in DOMAIN comments |-> ShapeComment(comments[i])],
     metadata |-> Metadata(c, l, b, o)]

(* what fetch returns once the comment feed has answered *)
FetchReturnStrict(c, l, b, o, resp) ==
    IF IsDict(resp) /\ IsError(resp)
    THEN [error |-> resp["error"]]
    ELSE Detail(c, l, b, o, CommentsOrEmpty(resp))
FetchReturn(c, l, b, o, resp) == Detail(c, l, b, o, CommentsOrEmpty(resp))

(* the five requests of fetch *)
CardRequest(id) == Req("GET", "cards", id)
ListRequest(c) == Req("GET", "lists", Get(c, "idList", None))
BoardRequest(c) == Req("GET", "boards", Get(c, "idBoard", None))
OrgRequest(b) == Req("GET", "organizations", b["idOrganization"])
CommentsRequestPosts(id) == WriteReq("POST", "actions/comments", id, [text |-> ""])
CommentsRequest(id) == Req("GET", "actions", id)

(* fetch(card_id): the validation and the primary card lookup *)
FetchStart(id) ==
    /\ pc = "idle"
    /\ tool' = "fetch"
    /\ arg' = id
    /\ IF IsBlank(id)
       THEN /\ log' = <<>>
            /\ ret' = [error |-> "Missing card_id"]
            /\ pc' = "idle"
            /\ UNCHANGED <<up, card>>
       ELSE LET req == CardRequest(id)
                data == trello_get(up, req)
            IN /\ log' = <<req>>
               /\ up' = Applied(up, req)
               /\ IF IsError(data)
                  THEN /\ ret' = [error |-> data["error"]]
                       /\ pc' = "idle"
                       /\ UNCHANGED card
                  ELSE /\ card' = data
                       /\ pc' = "fetch_list"
                       /\ ret' = NotReturned
    /\ UNCHANGED <<nwrites, list_info, board_info, org_info>>
    /\ UNCHANGED SearchLocals

FetchList ==
    /\ pc = "fetch_list"
    /\ LET req == ListRequest(card)
       IN /\ log' = Append(log, req)
          /\ up' = Applied(up, req)
          /\ list_info' = trello_get(up, req)
    /\ pc' = "fetch_board"
    /\ UNCHANGED <<tool, arg, ret, nwrites, card, board_info, org_info>>
    /\ UNCHANGED SearchLocals

FetchBoard ==
    /\ pc = "fetch_board"
    /\ LET req == BoardRequest(card)
           data == trello_get(up, req)
       IN /\ log' = Append(log, req)
          /\ up' = Applied(up, req)
          /\ board_info' = data
          /\ org_info' = EmptyDict
          /\ pc' = IF NeedsOrg(data) THEN "fetch_org" ELSE "fetch_comments"
    /\ UNCHANGED <<tool, arg, ret, nwrites, card, list_info>>
    /\ UNCHANGED SearchLocals

FetchOrg ==
    /\ pc = "fetch_org"
    /\ LET req == OrgRequest(board_info)
       IN /\ log' = Append(log, req)
          /\ up' = Applied(up, req)
          /\ org_info' = trello_get(up, req)
    /\ pc' = "fetch_comments"
    /\ UNCHANGED <<tool, arg, ret, nwrites, card, list_info, board_info>>
    /\ UNCHANGED SearchLocals

FetchComments ==
    /\ pc = "fetch_comments"
    /\ LET req == CommentsRequest(arg)
       IN /\ log' = Append(log, req)
          /\ up' = Applied(up, req)
          /\ ret' = FetchReturn(card, list_info, board_info, org_info,
                                trello_get(up, req))
    /\ pc' = "idle"
    /\ FetchLocalsGone
    /\ UNCHANGED <<tool, arg, nwrites>>
    /\ UNCHANGED SearchLocals

-----------------------------------------------------------------------------
(* overview *)

MyOrgsResponses ==
    {HttpError("HTTP 401"),
     JList(<<[id |-> "O1", displayName |-> "Acme", name |-> "acme"]>>)}

MyBoardsResponses ==
    {HttpError("HTTP 401"),
     JList(<<Updated(FullBoard, [closed |-> FALSE, idOrganization |-> "O1"]),
             [name |-> "no id"],
             [id |-> "B2", name |-> "Ideas", closed |-> TRUE]>>)}

BoardListsResponses ==
    {HttpError("HTTP 500"),
     JList(<<[id |-> "L1", name |-> "To Do", closed |-> FALSE], [id |-> "L2"]>>)}

(* what the three endpoints of overview answer: all well, the lists of a   *)
(* board failing, or the credentials refused                               *)
OverviewUpstreams ==
    {o \in [orgs : MyOrgsResponses, boards : MyBoardsResponses,
            lists : BoardListsResponses] :
        IsError(o.orgs) = IsError(o.boards)}

(* for b in boards: the dicts among what iterating the response yields *)
Iterated(resp) == IF IsDict(resp) THEN <<>> ELSE resp["items"]

HasId(b) == "id" \in DOMAIN b

ListsRequest(b) == Req("GET", "boards/lists", b["id"])

(* the rows one board contributes; iterating an error envelope or a board  *)
(* without name raises inside the try and leaves no row                    *)
BoardRows(b, lists) ==
    IF "name" \notin DOMAIN b THEN <<>>
    ELSE [i \in DOMAIN Iterated(lists) |->
            [workspaceId |-> Get(b, "idOrganization", None),
             board |-> b["name"],
             boardId |-> b["id"],
             listId |-> Get(Iterated(lists)[i], "id", None),
             list |-> Get(Iterated(lists)[i], "name", None),
             closed |-> Get(Iterated(lists)[i], "closed", FALSE)]]

RECURSIVE OverviewRows(_, _)
OverviewRows(w, bs) ==
    IF bs = <<>> THEN <<>>
    ELSE BoardRows(Head(bs), trello_get(w, ListsRequest(Head(bs))))
            \o OverviewRows(w, Tail(bs))

OverviewLog(w) ==
    LET bs == SelectSeq(Iterated(w.myboards), HasId)
    IN <<Req("GET", "members/me/organizations", None),
         Req("GET", "members/me/boards", None)>>
       \o [i \in DOMAIN bs |-> ListsRequest(bs[i])]

OverviewResult(w) ==
    [workspaces |-> w.myorgs,
     boards |-> w.myboards,
     lists |-> OverviewRows(w, SelectSeq(Iterated(w.myboards), HasId))]

Overview ==
    /\ pc = "idle"
    /\ tool' = "overview"
    /\ arg' = <<>>
    /\ log' = OverviewLog(up)
    /\ up' = AppliedAll(up, OverviewLog(up))
    /\ ret' = OverviewResult(up)
    /\ pc' = "idle"
    /\ UNCHANGED nwrites
    /\ UNCHANGED FetchLocals
    /\ UNCHANGED SearchLocals

-----------------------------------------------------------------------------
(* The write tools *)

(* trello_post / trello_put: one request; ok says whether it succeeded *)
Write(name, req, ok) ==
    /\ pc = "idle"
    /\ nwrites < MaxWrites
    /\ nwrites' = nwrites + 1
    /\ tool' = name
    /\ arg' = req.arg
    /\ log' = <<req>>
    /\ up' = IF ok THEN Applied(up, req) ELSE up
    /\ ret' = IF ok THEN [id |-> "c1"] ELSE HttpError("HTTP 400")
    /\ pc' = "idle"
    /\ UNCHANGED last
    /\ UNCHANGED FetchLocals
    /\ UNCHANGED SearchLocals

CardIds == {<<"a">>}

create_card ==
    \E name \in {"New"}, ok \in BOOLEAN :
        Write("create_card",
              WriteReq("POST", "cards", None,
                       [idList |-> "L1", name |-> name, desc |-> <<>>]), ok)

(* update_data: only the truthy name, desc, due and the closed that is set *)
Lower(b) == IF b = "True" THEN "true" ELSE "false"

Truthy(v) == v \notin {None, ""}

UpdateData(name, desc, due, closed) ==
    LET given == [name |-> name, desc |-> desc, due |-> due]
        keys == {k \in DOMAIN given : Truthy(given[k])}
                    \cup (IF closed # None THEN {"closed"} ELSE {})
    IN [k \in keys |-> IF k = "closed" THEN Lower(closed) ELSE given[k]]

update_card ==
    \E id \in CardIds, name \in {"", "Renamed"},
       closed \in {None, "True"}, ok \in BOOLEAN :
        Write("update_card",
              WriteReq("PUT", "cards", id, UpdateData(name, None, None, closed)), ok)

add_comment ==
    \E id \in CardIds, ok \in BOOLEAN :
        Write("add_comment",
              WriteReq("POST", "actions/comments", id, [text |-> "hello"]), ok)

move_card ==
    \E id \in CardIds, ok \in BOOLEAN :
        Write("move_card", WriteReq("PUT", "cards", id, [idList |-> "L2"]), ok)

archive_card ==
    \E id \in CardIds, ok \in BOOLEAN :
        Write("archive_card",
              WriteReq("PUT", "cards/closed", id, [value |-> "true"]), ok)

-----------------------------------------------------------------------------
(* Initial states and specifications *)

Only(k, v) == [x \in {k} |-> v]

DefaultUp ==
    [pages |-> [p \in 0..(MaxPages - 1) |->
                  [ok |-> TRUE, n |-> IF p = 0 THEN 7 ELSE 0]],
     card |-> FullCard,
     lists |-> Only("L1", [id |-> "L1", name |-> "To Do", idBoard |-> "B1"]),
     boards |-> Only("B1", Updated(FullBoard, [idOrganization |-> "O1"])),
     orgs |-> Only("O1", [id |-> "O1", displayName |-> "Acme", name |-> "acme"]),
     actions |-> JList(<<Comment1, Comment2>>),
     myorgs |-> JList(<<[id |-> "O1", displayName |-> "Acme", name |-> "acme"]>>),
     myboards |-> JList(<<FullBoard>>),
     boardlists |-> [b \in {"B1", "B2"} |-> JList(<<>>)]]

NoRead ==
    [tool |-> "none", arg |-> <<>>, up |-> EmptyDict, ret |-> EmptyDict,
     same |-> FALSE, before |-> EmptyDict]

InitProgram ==
    /\ pc = "idle"
    /\ tool = "none"
    /\ arg = <<>>
    /\ page = 0
    /\ all_cards = <<>>
    /\ card = EmptyDict
    /\ list_info = EmptyDict
    /\ board_info = EmptyDict
    /\ org_info = EmptyDict
    /\ log = <<>>
    /\ ret = NotReturned
    /\ nwrites = 0
    /\ last = NoRead

(* a read tool's step, with the completed read remembered *)
Remembered(A) ==
    /\ A
    /\ LET same == last.tool = tool' /\ last.arg = arg' /\ last.up = up'
       IN last' = IF pc' = "idle"
                  THEN [tool |-> tool', arg |-> arg', up |-> up', ret |-> ret',
                        same |-> same,
                        before |-> IF same THEN last.ret ELSE EmptyDict]
                  ELSE last

(* Every tool, over an upstream that the write tools change *)
Init ==
    /\ InitProgram
    /\ \E o \in OverviewUpstreams :
          up = [DefaultUp EXCEPT !.myboards = o.boards, !.myorgs = o.orgs,
                                 !.boardlists = [b \in {"B1", "B2"} |-> o.lists]]

Next ==
    \/ \E q \in Inputs : Remembered(SearchStart(q))
    \/ Remembered(SearchPage)
    \/ Remembered(SearchReturn)
    \/ \E id \in Inputs : Remembered(FetchStart(id))
    \/ Remembered(FetchList)
    \/ Remembered(FetchBoard)
    \/ Remembered(FetchOrg)
    \/ Remembered(FetchComments)
    \/ Remembered(Overview)
    \/ create_card
    \/ update_card
    \/ add_comment
    \/ move_card
    \/ archive_card

Spec == Init /\ [][Next]_vars

(* search alone, over every shape of the five pages of the search index *)
InitSearch ==
    /\ InitProgram
    /\ \E ps \in [0..(MaxPages - 1) -> PageKinds] : up = [DefaultUp EXCEPT !.pages = ps]

NextSearch ==
    \/ \E q \in Inputs : SearchStart(q) /\ UNCHANGED last
    \/ SearchPage /\ UNCHANGED last
    \/ SearchReturn /\ UNCHANGED last

SpecSearch == InitSearch /\ [][NextSearch]_vars

(* fetch alone, over every answer of its five upstream calls *)
InitFetch ==
    /\ InitProgram
    /\ \E c \in CardResponses, l \in ListResponses, b \in BoardResponses,
          o \in OrgResponses, a \in ActionsResponses :
          up = [DefaultUp EXCEPT !.card = c, !.lists = Only("L1", l),
                                 !.boards = Only("B1", b), !.orgs = Only("O1", o),
                                 !.actions = a]

NextFetch ==
    \/ \E id \in Inputs : FetchStart(id) /\ UNCHANGED last
    \/ FetchList /\ UNCHANGED last
    \/ FetchBoard /\ UNCHANGED last
    \/ FetchOrg /\ UNCHANGED last
    \/ FetchComments /\ UNCHANGED last

SpecFetch == InitFetch /\ [][NextFetch]_vars

-----------------------------------------------------------------------------
(* Vocabulary of the properties, stated on the upstream's answers, the     *)
(* request log and the returned value                                      *)

Failed(resp) == "error" \in DOMAIN resp
Blank(s) == \A i \in DOMAIN s : s[i] \in Whitespace
Returned(t) == pc = "idle" /\ tool = t
Requested(path) == \E i \in DOMAIN log : log[i].path = path
DetailKeys ==
    {"id", "title", "text", "url", "due", "closed", "members", "checklists",
     "attachments", "comments", "metadata"}
IsDetail(r) == DOMAIN r = DetailKeys

(* what the upstream holds for the board and the list the card names *)
BoardAnswer ==
    IF "idBoard" \in DOMAIN up.card /\ up.card["idBoard"] \in DOMAIN up.boards
    THEN up.boards[up.card["idBoard"]] ELSE [error |-> "HTTP 404"]
ListAnswer ==
    IF "idList" \in DOMAIN up.card /\ up.card["idList"] \in DOMAIN up.lists
    THEN up.lists[up.card["idList"]] ELSE [error |-> "HTTP 404"]
HasWorkspaceId(b) ==
    "idOrganization" \in DOMAIN b /\ b["idOrganization"] \notin {None, ""}
OrgAnswer == up.orgs[BoardAnswer["idOrganization"]]

(* a fetch of a card the upstream has, with a non-blank id, has returned *)
FetchedCard == Returned("fetch") /\ ~Blank(arg) /\ ~Failed(up.card)

-----------------------------------------------------------------------------
(* C1: when the primary card lookup fails, fetch of a non-blank id returns *)
(* the error envelope and has issued no request but the card lookup: no    *)
(* list, board, organization or comment-feed call.                         *)
C1_PrimaryFailureIsTerminal ==
    (tool = "fetch" /\ ~Blank(arg) /\ Failed(up.card)) =>
        /\ pc = "idle"
        /\ ret = [error |-> up.card["error"]]
        /\ Len(log) = 1 /\ log[1].path = "cards" /\ log[1].arg = arg
        /\ ~Requested("lists") /\ ~Requested("boards")
        /\ ~Requested("organizations") /\ ~Requested("actions")

C1_Witness ==
    /\ Returned("fetch") /\ arg = <<" ", "a", "b", " ">>
    /\ Failed(up.card) /\ Failed(ret) /\ Len(log) = 1

(* C2: when the card lookup succeeds and the comment feed fails, fetch     *)
(* returns a full detail record with comments = [], whatever the list,     *)
(* board and workspace calls answered.                                     *)
C2_CommentFailureTolerated ==
    (FetchedCard /\ Failed(up.actions)) =>
        /\ IsDetail(ret)
        /\ ret["comments"] = <<>>
        /\ Requested("actions")

C2_Witness ==
    /\ FetchedCard /\ Failed(up.actions)
    /\ Failed(ListAnswer) /\ ~Failed(BoardAnswer) /\ Requested("organizations")
    /\ IsDetail(ret) /\ ret["comments"] = <<>>

(* C7: when a dependent lookup (list, board, workspace) fails or the id it *)
(* needs is absent, fetch still returns a detail record, with the field    *)
(* "" or None; a failed board lookup gives workspace None and no           *)
(* organization call.                                                      *)
C7_DependentFailuresDegrade ==
    FetchedCard =>
        /\ IsDetail(ret)
        /\ Failed(ListAnswer) => ret["metadata"]["list"] = ""
        /\ Failed(BoardAnswer) =>
              /\ ret["metadata"]["board"] = ""
              /\ ret["metadata"]["boardUrl"] = ""
              /\ ret["metadata"]["workspace"] = None
              /\ ~Requested("organizations")
        /\ (~Failed(BoardAnswer) /\ HasWorkspaceId(BoardAnswer) /\ Failed(OrgAnswer))
              => ret["metadata"]["workspace"] \in {"", None}

C7_Witness ==
    /\ FetchedCard /\ "idList" \notin DOMAIN up.card
    /\ Failed(BoardAnswer) /\ "idBoard" \in DOMAIN up.card
    /\ IsDetail(ret) /\ ret["metadata"]["workspace"] = None
    /\ ret["comments"] # <<>>

(* C8: the organization call is issued exactly when the board response has *)
(* a non-empty idOrganization; a board without one gives a detail record   *)
(* with workspace None.                                                    *)
C8_WorkspaceOnlyWhenNamed ==
    FetchedCard =>
        /\ Requested("organizations") <=> HasWorkspaceId(BoardAnswer)
        /\ (~Failed(BoardAnswer) /\ ~HasWorkspaceId(BoardAnswer)) =>
              /\ IsDetail(ret)
              /\ ret["metadata"]["workspace"] = None
              /\ ret["metadata"]["board"] = "Roadmap"

C8_Witness ==
    /\ FetchedCard /\ ~Failed(BoardAnswer)
    /\ "idOrganization" \in DOMAIN BoardAnswer /\ BoardAnswer["idOrganization"] = ""
    /\ ~Requested("organizations") /\ ret["metadata"]["workspace"] = None

-----------------------------------------------------------------------------
(* Vocabulary of the search properties *)

ShortPage(p) == up.pages[p].ok /\ up.pages[p].n < PageSize
FailedPage(p) == ~up.pages[p].ok
RequestedPage(i) == log[i].arg.cards_page

(* the ids of the cards of pages 0 .. k-1, in upstream order *)
RECURSIVE IdsBefore(_)
IdsBefore(k) ==
    IF k = 0 THEN <<>>
    ELSE IdsBefore(k - 1) \o [i \in 1..up.pages[k - 1].n |-> (k - 1) * 100 + i]

(* the card of the search index a summary was made of *)
SourceOf(r) == SearchCard(r["id"] \div 100, r["id"] % 100)
DescOf(c) == IF "desc" \in DOMAIN c THEN c["desc"] ELSE <<>>

(* C3: the text of every summary is the first 200 characters of the        *)
(* description followed by "..." when the description is longer than 200,  *)
(* the description itself when it has 1 to 200 characters, and "" when it  *)
(* is missing or empty.                                                    *)
C3_TextTruncatedOnlyWhenLong ==
    Returned("search") =>
        \A k \in DOMAIN ret["results"] :
            LET d == DescOf(SourceOf(ret["results"][k]))
            IN ret["results"][k]["text"] =
                  IF Len(d) > TruncLen THEN SubSeq(d, 1, TruncLen) \o Ellipsis ELSE d

(* what the code does instead: the marker follows every non-empty          *)
(* description, truncated or not                                           *)
C3_MarkerAfterEveryNonEmptyText ==
    Returned("search") =>
        \A k \in DOMAIN ret["results"] :
            LET d == DescOf(SourceOf(ret["results"][k]))
            IN ret["results"][k]["text"] =
                  IF d = <<>> THEN <<>>
                  ELSE SubSeq(d, 1, Min(TruncLen, Len(d))) \o Ellipsis

(* C4: within one search the pages are requested in order from page 0, and *)
(* no page is requested after a page that returned no item or fewer items  *)
(* than the page size.                                                     *)
C4_StopsAtShortPage ==
    tool = "search" =>
        \A i \in DOMAIN log :
            /\ log[i].method = "GET" /\ log[i].path = "search"
            /\ RequestedPage(i) = i - 1
            /\ log[i].arg.query = arg
            /\ i < Len(log) => ~ShortPage(i - 1)

C4_Witness ==
    /\ Returned("search") /\ Len(log) = 2
    /\ up.pages[0].n = PageSize /\ ShortPage(1) /\ up.pages[1].n = 7
    /\ up.pages[2].ok /\ up.pages[2].n = PageSize
    /\ Len(ret["results"]) = PageSize + 7

(* C5: no page is requested after a page that failed, and search then      *)
(* returns {results}: the summaries of the cards of the pages before the   *)
(* failing one, in upstream order.                                         *)
C5_PartialResultsOnPageError ==
    tool = "search" =>
        /\ \A i \in DOMAIN log : i < Len(log) => ~FailedPage(i - 1)
        /\ (pc = "idle" /\ log # <<>> /\ FailedPage(Len(log) - 1)) =>
              /\ DOMAIN ret = {"results"}
              /\ [k \in DOMAIN ret["results"] |-> ret["results"][k]["id"]]
                    = IdsBefore(Len(log) - 1)

C5_Witness ==
    /\ Returned("search") /\ Len(log) = 3 /\ FailedPage(2)
    /\ up.pages[0].n = PageSize + 1
    /\ Len(ret["results"]) = 2 * PageSize + 1
    /\ ret["results"][PageSize + 2]["id"] = 101

-----------------------------------------------------------------------------
ReadTools == {"search", "fetch", "overview"}

(* C9: a blank (empty or whitespace-only) query makes search return        *)
(* {results: []}, a blank card id makes fetch return an {error} envelope,  *)
(* and neither issues an upstream request.                                 *)
C9_BlankInputShortCircuits ==
    /\ (tool = "search" /\ Blank(arg)) =>
          pc = "idle" /\ ret = [results |-> <<>>] /\ log = <<>>
    /\ (tool = "fetch" /\ Blank(arg)) =>
          pc = "idle" /\ DOMAIN ret = {"error"} /\ log = <<>>

C9_Witness ==
    /\ Returned("search") /\ arg = <<"\t", " ">> /\ log = <<>>
    /\ ret = [results |-> <<>>]
    /\ nwrites > 0

(* C10: the read tools issue only GET requests and leave the upstream      *)
(* state as it was, and a read repeated on an unchanged upstream returns   *)
(* the value it returned before.                                           *)
C10_ReadsHaveNoEffect ==
    /\ [](tool \in ReadTools => \A i \in DOMAIN log : log[i].method = "GET")
    /\ [](last.same => last.ret = last.before)
    /\ [][tool' \in ReadTools => up' = up]_vars

C10_Witness ==
    /\ Returned("fetch") /\ last.tool = "fetch" /\ last.same
    /\ IsDetail(last.before) /\ Len(log) = 5
    /\ nwrites > 0 /\ up # DefaultUp

====
